---------------------------- MODULE Spec2Model ----------------------------
(***************************************************************************)
(* Seplos BMS poller (src/src/fetch_bms_data.py): the ASCII-hex codec, the *)
(* command builder, the response validation, the telemetry and             *)
(* telesignalization decoders, and the polling loop of read_serial_data    *)
(* and of the main loop.                                                   *)
(*                                                                         *)
(* A Python bytes object is a sequence of integers 0..255.  A Python       *)
(* exception raised by an expression is a result record whose exc field    *)
(* names it.  Voltages are kept in millivolt (the code's value times       *)
(* 1000), temperatures in tenths of a degree, so that the code's float     *)
(* division by 1000, 100 and 10 is a change of unit and not of value.      *)
(***************************************************************************)
EXTENDS Integers, Sequences, FiniteSets, TLC

VARIABLES
    i,                  \* main loop: index into battery_packs
    pc,                 \* position of the single thread of the process
    iteration,          \* telemetry_/telesignalization_command_iteration
    packs,              \* battery_packs[k]["pack_instance"]: the pack objects
    battery_pack_data,  \* read_serial_data's local composite
    ret,                \* value read_serial_data returned to the main loop
    mqtt,               \* what the main loop published last
    serial,             \* the serial transport: what was done on it last
    exception,          \* the exception that ended the process, or "none"
    hist,               \* history: the responses each pack's polls accepted
    test                \* the call under study of a pure function

pollerVars == <<i, pc, iteration, packs, battery_pack_data, ret, mqtt, serial, exception, hist>>
vars == <<i, pc, iteration, packs, battery_pack_data, ret, mqtt, serial, exception, hist, test>>

---------------------------------------------------------------------------
(* Python primitives the code relies on. *)

Min(a, b) == IF a < b THEN a ELSE b
Max(a, b) == IF a > b THEN a ELSE b

\* s[a:b] of a bytes object: negative indices count from the end, both are
\* clamped to the length, and an empty range gives b"".
PySlice(s, a, b) ==
    LET n  == Len(s)
        lo == IF a < 0 THEN Max(a + n, 0) ELSE Min(a, n)
        hi == IF b < 0 THEN Max(b + n, 0) ELSE Min(b, n)
    IN  IF lo >= hi THEN <<>> ELSE SubSeq(s, lo + 1, hi)

\* the sum of s[lo..hi], halving the range
RECURSIVE SumRange(_, _, _)
SumRange(s, lo, hi) ==
    IF lo > hi THEN 0
    ELSE IF lo = hi THEN s[lo]
    ELSE LET mid == (lo + hi) \div 2 IN SumRange(s, lo, mid) + SumRange(s, mid + 1, hi)

\* the sum of the bytes of s ("for b in frame: checksum += b")
SumBytes(s) == SumRange(s, 1, Len(s))

RECURSIVE BitXor(_, _)
BitXor(a, b) ==
    IF a = 0 /\ b = 0 THEN 0
    ELSE 2 * BitXor(a \div 2, b \div 2) + (IF a % 2 = b % 2 THEN 0 ELSE 1)

RECURSIVE BitAnd(_, _)
BitAnd(a, b) ==
    IF a = 0 \/ b = 0 THEN 0
    ELSE 2 * BitAnd(a \div 2, b \div 2) + (IF a % 2 = 1 /\ b % 2 = 1 THEN 1 ELSE 0)

\* x << k and x >> k on Python's unbounded integers
ShiftLeft(x, k) == x * 2^k
ShiftRight(x, k) == x \div 2^k

\* the characters bytes.fromhex skips: ASCII whitespace (\t \n \v \f \r and space)
IsSpace(c) == c \in {9, 10, 11, 12, 13, 32}

\* value of a hex digit character, 37 (CPython's "no digit") for any other
DigitValue(c) ==
    IF c \in 48..57 THEN c - 48
    ELSE IF c \in 65..70 THEN c - 55
    ELSE IF c \in 97..102 THEN c - 87
    ELSE 37

\* bytes.fromhex(str): whitespace is skipped before each pair of digits, never
\* inside a pair; a missing or non-hex digit raises ValueError.  So the call
\* succeeds exactly when the characters that are not whitespace are hex digits,
\* even in number, and each pair of them is adjacent; the result holds one byte
\* for each pair.
FromHex(s) ==
    LET IsKept(k) == ~IsSpace(s[k])
        idx == SelectSeq([k \in 1..Len(s) |-> k], IsKept)
        m == Len(idx)
        ok == /\ m % 2 = 0
              /\ \A t \in 1..m : DigitValue(s[idx[t]]) < 16
              /\ \A p \in 1..(m \div 2) : idx[2 * p] = idx[2 * p - 1] + 1
    IN  IF ok
        THEN [exc |-> "none",
              val |-> [p \in 1..(m \div 2) |->
                          16 * DigitValue(s[idx[2 * p - 1]]) + DigitValue(s[idx[2 * p]])]]
        ELSE [exc |-> "ValueError", val |-> <<>>]

\* bytes.fromhex(data.decode("ascii")): a byte above 127 raises
\* UnicodeDecodeError (a ValueError and a UnicodeError) before any parsing.
bytes_fromhex(data) ==
    IF \E k \in 1..Len(data) : data[k] > 127
    THEN [exc |-> "UnicodeDecodeError", val |-> <<>>]
    ELSE FromHex(data)

RECURSIVE BigEndian(_)
BigEndian(b) ==
    IF b = <<>> THEN 0 ELSE 256 * BigEndian(SubSeq(b, 1, Len(b) - 1)) + b[Len(b)]

\* int.from_bytes(b, byteorder="big", signed=signed); b"" gives 0
int_from_bytes(b, signed) ==
    LET u == BigEndian(b) IN
    IF signed /\ Len(b) > 0 /\ u >= 2^(8 * Len(b) - 1) THEN u - 2^(8 * Len(b)) ELSE u

\* the character of one hex digit under the format code X (upper case)
HexChar(d) == IF d < 10 THEN 48 + d ELSE 55 + d

RECURSIVE HexDigits(_)
HexDigits(x) ==
    IF x < 16 THEN <<HexChar(x)>> ELSE Append(HexDigits(x \div 16), HexChar(x % 16))

RECURSIVE ZeroPad(_, _)
ZeroPad(s, width) == IF Len(s) >= width THEN s ELSE ZeroPad(<<48>> \o s, width)

\* f"{x:0<width>X}".encode() for x >= 0: at least width digits, more when
\* x needs them
FormatX(x, width) == ZeroPad(HexDigits(x), width)

---------------------------------------------------------------------------
(* SeplosBatteryPack: the codec (static methods). *)

\* mutant: the final "+ 1" is lost
calculate_frame_checksum_no_increment(frame) ==
    BitXor(SumBytes(frame) % 65535, 65535)

calculate_frame_checksum(frame) ==
    BitXor(SumBytes(frame) % 65535, 65535) + 1

\* is_valid_hex_string catches ValueError only (UnicodeDecodeError is one)
is_valid_hex_string(data) == bytes_fromhex(data).exc = "none"

is_valid_length(data, expected_length) == Len(data) = expected_length

int_from_1byte_hex_ascii(data, offset, signed) ==
    LET h == bytes_fromhex(PySlice(data, offset, offset + 2)) IN
    IF h.exc # "none" THEN [exc |-> h.exc, val |-> 0]
    ELSE [exc |-> "none", val |-> int_from_bytes(h.val, signed)]

\* mutant: the signed flag is ignored
int_from_2byte_hex_ascii_unsigned_only(data, offset, signed) ==
    LET h == bytes_fromhex(PySlice(data, offset, offset + 4)) IN
    IF h.exc # "none" THEN [exc |-> h.exc, val |-> 0]
    ELSE [exc |-> "none", val |-> int_from_bytes(h.val, FALSE)]

int_from_2byte_hex_ascii(data, offset, signed) ==
    LET h == bytes_fromhex(PySlice(data, offset, offset + 4)) IN
    IF h.exc # "none" THEN [exc |-> h.exc, val |-> 0]
    ELSE [exc |-> "none", val |-> int_from_bytes(h.val, signed)]

get_info_length(info) ==
    LET lenid == Len(info)
        s1 == BitAnd(lenid, 15) + BitAnd(ShiftRight(lenid, 4), 15)
                + BitAnd(ShiftRight(lenid, 8), 15)
        s2 == s1 % 16
        s3 == BitXor(s2, 15)
        lchksum == s3 + 1
    IN  IF lenid = 0 THEN 0 ELSE ShiftLeft(lchksum, 12) + lenid

\* mutant: CID2 is written before CID1
encode_cmd_fields_swapped(address, cid2, info) ==
    LET cid1 == 70
        frame == FormatX(32, 2) \o FormatX(address, 2) \o FormatX(cid2, 2)
                   \o FormatX(cid1, 2) \o FormatX(get_info_length(info), 4) \o info
    IN  <<126>> \o frame \o FormatX(calculate_frame_checksum(frame), 4) \o <<13>>

encode_cmd(address, cid2, info) ==
    LET cid1 == 70
        info_length == get_info_length(info)
        frame == FormatX(32, 2) \o FormatX(address, 2) \o FormatX(cid1, 2)
                   \o FormatX(cid2, 2) \o FormatX(info_length, 4) \o info
        checksum == calculate_frame_checksum(frame)
    IN  <<126>> \o frame \o FormatX(checksum, 4) \o <<13>>

---------------------------------------------------------------------------
(* SeplosBatteryPack: validation of a response. *)

\* mutant: the checksum is not compared
is_valid_frame_no_checksum(data) ==
    LET compare == int_from_2byte_hex_ascii(data, 0 - 5, FALSE)
        cid2    == PySlice(data, 7, 9)
    IN  IF compare.exc # "none" THEN FALSE
        ELSE IF cid2 # <<48, 48>> THEN FALSE
        ELSE TRUE

\* is_valid_frame: both except clauses (UnicodeError, ValueError) return False
is_valid_frame(data) ==
    LET chksum  == calculate_frame_checksum(PySlice(data, 1, 0 - 5))
        compare == int_from_2byte_hex_ascii(data, 0 - 5, FALSE)
        cid2    == PySlice(data, 7, 9)
    IN  IF compare.exc # "none" THEN FALSE
        ELSE IF chksum # compare.val THEN FALSE
        ELSE IF cid2 # <<48, 48>> THEN FALSE
        ELSE TRUE

\* read_serial_data, the line computing is_requested_pack: no try surrounds
\* it, so an exception of int_from_1byte_hex_ascii leaves read_serial_data.
is_requested_pack(raw_data, pack_address) ==
    LET pack_no_data == PySlice(raw_data, 3, 0 - 77)
        adr == int_from_1byte_hex_ascii(pack_no_data, 0, FALSE)
    IN  IF ~is_valid_hex_string(pack_no_data) THEN [exc |-> "none", val |-> FALSE]
        ELSE IF adr.exc # "none" THEN [exc |-> adr.exc, val |-> FALSE]
        ELSE [exc |-> "none", val |-> adr.val = pack_address]

\* mutant: the address of the response is not compared
response_verdict_any_address(raw_data, pack_address, expected_length) ==
    LET info_frame_data == PySlice(raw_data, 13, 0 - 5) IN
    IF /\ is_valid_length(info_frame_data, expected_length)
       /\ is_valid_hex_string(info_frame_data)
       /\ is_valid_frame(raw_data)
    THEN "accepted" ELSE "rejected"

\* read_serial_data, from the slicing of raw_data to the if that guards the
\* decoding: "raised" (an uncaught exception), "accepted" (the branch that
\* decodes is taken) or "rejected" (the loop goes round).
response_verdict(raw_data, pack_address, expected_length) ==
    LET info_frame_data == PySlice(raw_data, 13, 0 - 5)
        req == is_requested_pack(raw_data, pack_address)
    IN  IF req.exc # "none" THEN "raised"
        ELSE IF /\ req.val
                /\ is_valid_length(info_frame_data, expected_length)
                /\ is_valid_hex_string(info_frame_data)
                /\ is_valid_frame(raw_data)
             THEN "accepted"
             ELSE "rejected"

---------------------------------------------------------------------------
(* Telemetry: the object and its decoder. *)

\* None in a list of numbers
NoneVal == 0 - 1

\* the configured cell voltage bounds, in millivolt
MIN_CELL_VOLTAGE == 2500
MAX_CELL_VOLTAGE == 3650

\* Telemetry.__init__: the attributes a later decode reads before it assigns
\* them (every other attribute is assigned by the decoder before it is read)
Telemetry == [cell_voltage |-> [k \in 1..16 |-> NoneVal]]

\* round(a / b) for a >= 0, b > 0; a tie rounds up (the code rounds a float
\* quotient, whose ties are decided by its binary representation)
RoundDiv(a, b) == (2 * a + b) \div (2 * b)

\* round(a / b) for any a: Python rounds the magnitude
RoundDivSigned(a, b) == IF a >= 0 THEN RoundDiv(a, b) ELSE 0 - RoundDiv(0 - a, b)

SetMin(S) == CHOOSE x \in S : \A y \in S : x <= y
SetMax(S) == CHOOSE x \in S : \A y \in S : x >= y

\* list.index(x): the first position holding x, 0-based
ListIndex(list, x) == SetMin({k \in 1..Len(list) : list[k] = x}) - 1

\* mutant: the last cell holding the minimum is reported
get_lowest_cell_last_index(telemetry) ==
    LET lowest == SetMin({telemetry.cell_voltage[k] : k \in 1..16})
        lowest_cell == SetMax({k \in 1..16 : telemetry.cell_voltage[k] = lowest}) - 1
    IN  [lowest_cell |-> lowest_cell,
         lowest_cell_voltage |-> telemetry.cell_voltage[lowest_cell + 1]]

get_lowest_cell(telemetry) ==
    LET lowest_cell ==
            ListIndex(telemetry.cell_voltage,
                      SetMin({telemetry.cell_voltage[k] : k \in 1..16}))
    IN  [lowest_cell |-> lowest_cell,
         lowest_cell_voltage |-> telemetry.cell_voltage[lowest_cell + 1]]

get_highest_cell(telemetry) ==
    LET highest_cell ==
            ListIndex(telemetry.cell_voltage,
                      SetMax({telemetry.cell_voltage[k] : k \in 1..16}))
    IN  [highest_cell |-> highest_cell,
         highest_cell_voltage |-> telemetry.cell_voltage[highest_cell + 1]]

\* decode_telemetry_feedback_frame on a pack whose Telemetry object is
\* `telemetry`: [exc, telemetry (the object afterwards), feedback (the dict)].
\* The loop over the cells raises ValueError at a cell whose 4 characters do
\* not parse and IndexError at cell 16; sum() raises TypeError on a None.
decode_telemetry_feedback_frame(telemetry, data) ==
    LET n_r == int_from_1byte_hex_ascii(data, 4, FALSE)
        number_of_cells == n_r.val
        cell(c) == int_from_2byte_hex_ascii(data, 6 + c * 4, FALSE)
        bad  == {c \in 0..(number_of_cells - 1) : cell(c).exc # "none" \/ c >= 16}
        done == IF bad = {} THEN number_of_cells ELSE SetMin(bad)
        cell_exc == IF bad = {} THEN "none"
                    ELSE IF cell(SetMin(bad)).exc # "none" THEN cell(SetMin(bad)).exc
                    ELSE "IndexError"
        cell_voltage == [k \in 1..16 |->
                            IF k - 1 < done THEN cell(k - 1).val
                            ELSE telemetry.cell_voltage[k]]
        after  == [telemetry EXCEPT !.cell_voltage = cell_voltage]
        has_none == \E k \in 1..16 : cell_voltage[k] = NoneVal
        lowest_cell_data  == get_lowest_cell(after)
        highest_cell_data == get_highest_cell(after)
        f(offset, signed) == int_from_2byte_hex_ascii(data, offset, signed)
        temp(t) == f(72 + t * 4, FALSE)
        rest == {temp(0), temp(1), temp(2), temp(3), temp(4), temp(5),
                 f(96, TRUE), f(100, FALSE), f(118, FALSE), f(110, FALSE),
                 f(104, FALSE), f(114, FALSE), f(122, FALSE), f(126, FALSE),
                 f(130, FALSE)}
        failed(exc) == [exc |-> exc, telemetry |-> after, feedback |-> <<>>]
    IN  IF n_r.exc # "none" THEN [exc |-> n_r.exc, telemetry |-> telemetry, feedback |-> <<>>]
        ELSE IF cell_exc # "none" THEN failed(cell_exc)
        ELSE IF has_none THEN failed("TypeError")
        ELSE IF \E r \in rest : r.exc # "none" THEN failed("ValueError")
        ELSE [exc |-> "none",
              telemetry |-> after,
              feedback |-> [
                min_cell_voltage |-> MIN_CELL_VOLTAGE,
                max_cell_voltage |-> MAX_CELL_VOLTAGE,
                min_pack_voltage |-> MIN_CELL_VOLTAGE * number_of_cells,
                max_pack_voltage |-> MAX_CELL_VOLTAGE * number_of_cells,
                voltage_cell |-> [k \in 1..number_of_cells |-> cell(k - 1).val],
                average_cell_voltage |->
                    RoundDiv(SumBytes(cell_voltage), Len(cell_voltage)),
                lowest_cell |-> lowest_cell_data.lowest_cell + 1,
                lowest_cell_voltage |-> lowest_cell_data.lowest_cell_voltage,
                highest_cell |-> highest_cell_data.highest_cell + 1,
                highest_cell_voltage |-> highest_cell_data.highest_cell_voltage,
                delta_cell_voltage |-> highest_cell_data.highest_cell_voltage
                                         - lowest_cell_data.lowest_cell_voltage,
                cell_temperature |-> [t \in 1..4 |-> temp(t - 1).val - 2731],
                ambient_temperature |-> temp(4).val - 2731,
                components_temperature |-> temp(5).val - 2731,
                dis_charge_current |-> f(96, TRUE).val,
                total_pack_voltage |-> f(100, FALSE).val,
                dis_charge_power |-> RoundDivSigned(f(96, TRUE).val * f(100, FALSE).val, 10),
                rated_capacity |-> f(118, FALSE).val,
                battery_capacity |-> f(110, FALSE).val,
                residual_capacity |-> f(104, FALSE).val,
                soc |-> f(114, FALSE).val,
                cycles |-> f(122, FALSE).val,
                soh |-> f(126, FALSE).val,
                port_voltage |-> f(130, FALSE).val]]

---------------------------------------------------------------------------
(* Telesignalization: the object and its decoder. *)

\* an argument left at its default None
NoBit == 0 - 1

\* Telesignalization.__init__: the lists, and the scalar attributes whose
\* dictionary entry the decoder does not write under their own name
Telesignalization ==
    [cell_voltage_warning |-> [k \in 1..16 |-> "None"],
     cell_temperature_warning |-> [k \in 1..4 |-> "None"],
     cell_equalization |-> [k \in 1..16 |-> "None"],
     cell_disconnection |-> [k \in 1..16 |-> "None"],
     ambient_temp_low |-> "None",
     transient_overcurrent_lock |-> "None",
     output_short_circuit_lock |-> "None"]

\* bytes.fromhex(data.decode("ascii"))[offset]
ByteAt(data, offset) ==
    LET h == bytes_fromhex(data) IN
    IF h.exc # "none" THEN [exc |-> h.exc, val |-> 0]
    ELSE IF offset >= Len(h.val) THEN [exc |-> "IndexError", val |-> 0]
    ELSE [exc |-> "none", val |-> h.val[offset + 1]]

\* data_byte & (1 << bit) != 0
BitSet(data_byte, bit) == BitAnd(data_byte, ShiftLeft(1, bit)) # 0

\* the branches of status_from_24_byte_alarm on the byte read
alarm_type_status(alarm_type) ==
    IF alarm_type = 0 THEN "normal"
    ELSE IF alarm_type = 1 THEN "trigger_low"
    ELSE IF alarm_type = 2 THEN "trigger_high"
    ELSE "trigger_other"

status_from_24_byte_alarm(data, offset) ==
    LET alarm_type == ByteAt(data, offset) IN
    IF alarm_type.exc # "none" THEN [exc |-> alarm_type.exc, val |-> "None"]
    ELSE [exc |-> "none", val |-> alarm_type_status(alarm_type.val)]

\* the branches of status_from_20_bit_alarm on the byte read
data_byte_status(data_byte, on_off_bit, warn_bit, protection_bit) ==
    IF on_off_bit # NoBit
    THEN (IF BitSet(data_byte, on_off_bit) THEN "on" ELSE "off")
    ELSE IF warn_bit # NoBit
    THEN (IF BitSet(data_byte, warn_bit) THEN "warning"
          ELSE IF protection_bit # NoBit /\ BitSet(data_byte, protection_bit)
          THEN "protection"
          ELSE "normal")
    ELSE "None"

status_from_20_bit_alarm(data, offset, on_off_bit, warn_bit, protection_bit) ==
    LET data_byte == ByteAt(data, offset) IN
    IF data_byte.exc # "none" THEN [exc |-> data_byte.exc, val |-> "None"]
    ELSE [exc |-> "none",
          val |-> data_byte_status(data_byte.val, on_off_bit, warn_bit, protection_bit)]

\* decode_telesignalization_feedback_frame on a pack whose Telesignalization
\* object is `telesignalization`: [exc, telesignalization (the object
\* afterwards), feedback (the dict)].  Every exception here is an IndexError:
\* of bytes.fromhex(..)[offset] when the data holds fewer bytes than the
\* offset (every offset up to 42 is read), of a 16-element list at cell 16.
\* Every helper call parses the same data; the bytes are parsed once here
\* and the helpers' branches applied to them.
decode_telesignalization_feedback_frame(telesignalization, data) ==
    LET n_r == ByteAt(data, 2)
        number_of_cells == n_r.val
        bytes == bytes_fromhex(data).val
        s24(offset) == alarm_type_status(bytes[offset + 1])
        on_off(offset, bit) == data_byte_status(bytes[offset + 1], bit, NoBit, NoBit)
        warn(offset, bit) == data_byte_status(bytes[offset + 1], NoBit, bit, NoBit)
        warn_prot(offset, w, p) == data_byte_status(bytes[offset + 1], NoBit, w, p)
        cells == Min(number_of_cells, 16)
        eq(c) == on_off(IF c < 8 THEN 36 ELSE 37, c % 8)
        dc(c) == warn(IF c < 8 THEN 39 ELSE 40, c % 8)
        complete == ByteAt(data, 42).exc = "none"
        after ==
            [cell_voltage_warning |-> [k \in 1..16 |->
                 IF k - 1 < cells THEN s24(3 + k - 1)
                 ELSE telesignalization.cell_voltage_warning[k]],
             cell_temperature_warning |-> [k \in 1..4 |-> s24(20 + k - 1)],
             cell_equalization |-> [k \in 1..16 |->
                 IF k - 1 < cells THEN eq(k - 1)
                 ELSE telesignalization.cell_equalization[k]],
             cell_disconnection |-> [k \in 1..16 |->
                 IF k - 1 < cells THEN dc(k - 1)
                 ELSE telesignalization.cell_disconnection[k]],
             ambient_temp_low |-> warn_prot(32, 2, 3),
             transient_overcurrent_lock |-> warn(33, 6),
             output_short_circuit_lock |-> warn(33, 7)]
    IN  IF n_r.exc # "none"
        THEN [exc |-> n_r.exc, telesignalization |-> telesignalization, feedback |-> <<>>]
        ELSE IF number_of_cells > 16 \/ ~complete
        THEN [exc |-> "IndexError", telesignalization |-> telesignalization, feedback |-> <<>>]
        ELSE [exc |-> "none",
              telesignalization |-> after,
              feedback |-> [
                voltage_warning_cell |-> [k \in 1..number_of_cells |-> s24(3 + k - 1)],
                cell_temperature_warning |-> [k \in 1..4 |-> s24(20 + k - 1)],
                ambient_temperature_warning |-> s24(24),
                component_temperature_warning |-> s24(25),
                dis_charging_current_warning |-> s24(26),
                pack_voltage_warning |-> s24(27),
                voltage_sensing_failure |-> warn(29, 0),
                temp_sensing_failure |-> warn(29, 1),
                current_sensing_failure |-> warn(29, 2),
                power_switch_failure |-> warn(29, 3),
                cell_voltage_difference_sensing_failure |-> warn(29, 4),
                charging_switch_failure |-> warn(29, 5),
                discharging_switch_failure |-> warn(29, 6),
                current_limit_switch_failure |-> warn(29, 7),
                cell_overvoltage |-> warn_prot(30, 0, 1),
                cell_voltage_low |-> warn_prot(30, 2, 3),
                pack_overvoltage |-> warn_prot(30, 4, 5),
                pack_voltage_low |-> warn_prot(30, 6, 7),
                charging_temp_high |-> warn_prot(31, 0, 1),
                charging_temp_low |-> warn_prot(31, 2, 3),
                discharging_temp_high |-> warn_prot(31, 4, 5),
                discharging_temp_low |-> warn_prot(31, 6, 7),
                \* written twice, the second time where ambient_temp_low is decoded
                ambient_temp_high |-> warn_prot(32, 0, 1),
                component_temp_high |-> warn_prot(32, 4, 5),
                charging_overcurrent |-> warn_prot(33, 0, 1),
                discharging_overcurrent |-> warn_prot(33, 2, 3),
                transient_overcurrent |-> warn(33, 4),
                output_short_circuit |-> warn(33, 5),
                \* written twice, last with self.telesignalization.output_short_circuit_lock
                transient_overcurrent_lock |-> warn(33, 7),
                charging_high_voltage |-> warn(34, 0),
                intermittent_power_supplement |-> warn(34, 1),
                soc_low |-> warn_prot(34, 2, 3),
                cell_low_voltage_forbidden_charging |-> warn(34, 4),
                output_reverse_protection |-> warn(34, 5),
                output_connection_failure |-> warn(34, 6),
                discharge_switch |-> on_off(35, 0),
                charge_switch |-> on_off(35, 1),
                current_limit_switch |-> on_off(35, 2),
                heating_limit_switch |-> on_off(35, 3),
                equalization_cell |-> [k \in 1..number_of_cells |-> eq(k - 1)],
                discharge |-> on_off(38, 0),
                charge |-> on_off(38, 1),
                floating_charge |-> on_off(38, 2),
                standby |-> on_off(38, 4),
                power_off |-> on_off(38, 5),
                disconnection_cell |-> [k \in 1..number_of_cells |-> dc(k - 1)],
                auto_charging_wait |-> warn(41, 4),
                manual_charging_wait |-> warn(41, 5),
                eep_storage_failure |-> warn(42, 0),
                rtc_clock_failure |-> warn(42, 1),
                no_calibration_of_voltage |-> warn(42, 2),
                no_calibration_of_current |-> warn(42, 3),
                no_calibration_of_null_point |-> warn(42, 4)]]

\* SeplosBatteryPack.__init__; last_status None is <<>>
SeplosBatteryPack(pack_address) ==
    [pack_address |-> pack_address,
     last_status |-> <<>>,
     telemetry |-> Telemetry,
     telesignalization |-> Telesignalization]

---------------------------------------------------------------------------
(* The battery side of the bus: the responses a pack frames.  These are    *)
(* inputs of the program, built with the protocol's own arithmetic and not *)
(* with the program's functions.                                           *)

\* LENGTH: the length of INFO with its 4-bit checksum in the top nibble
BmsLength(info) ==
    LET n == Len(info)
        nibbles == (n % 16) + ((n \div 16) % 16) + ((n \div 256) % 16)
    IN  ((16 - (nibbles % 16)) % 16) * 4096 + n

\* SOI VER ADR CID1 RTN LENGTH INFO CHKSUM EOI; adr, cid1 and rtn are the two
\* characters of each field
ResponseFrame(adr, cid1, rtn, info) ==
    LET body == <<50, 48>> \o adr \o cid1 \o rtn \o FormatX(BmsLength(info), 4) \o info
    IN  <<126>> \o body \o FormatX(65536 - (SumBytes(body) % 65535), 4) \o <<13>>

\* the concatenation of ss[lo..hi], halving the range
RECURSIVE ConcatRange(_, _, _)
ConcatRange(ss, lo, hi) ==
    IF lo > hi THEN <<>>
    ELSE IF lo = hi THEN ss[lo]
    ELSE LET mid == (lo + hi) \div 2
         IN  ConcatRange(ss, lo, mid) \o ConcatRange(ss, mid + 1, hi)

Concat(ss) == ConcatRange(ss, 1, Len(ss))

\* the 150 characters of a telemetry INFO: data flag, pack, number of cells,
\* 16 cell voltages (mV), 6 temperatures (0.1 K), current (10 mA, two's
\* complement), pack voltage (10 mV), residual capacity, battery capacity,
\* SoC, rated capacity, cycles, SoH, port voltage, 16 reserved characters
TelemetryInfo(number_of_cells, cells, current, voltage) ==
    <<48, 48, 48, 49>> \o FormatX(number_of_cells, 2)
      \o Concat([k \in 1..16 |-> FormatX(cells[k], 4)])
      \o <<48, 54>> \o Concat([k \in 1..6 |-> FormatX(2731 + 200 + k, 4)])
      \o FormatX(current % 65536, 4) \o FormatX(voltage, 4)
      \o FormatX(9000, 4) \o <<48, 65>> \o FormatX(10000, 4) \o FormatX(900, 4)
      \o FormatX(10000, 4) \o FormatX(7, 4) \o FormatX(1000, 4) \o FormatX(voltage, 4)
      \o [k \in 1..16 |-> 48]

\* the 98 characters (49 bytes) of a telesignalization INFO whose bytes are
\* given by the function `bytes` on 0..48
TelesignalizationInfo(bytes) == Concat([k \in 1..49 |-> FormatX(bytes[k - 1], 2)])

\* 16 cells, 6 temperatures, 20 status bytes, everything normal but the byte
\* at `offset`, which holds `value`
TelesignalizationBytes(number_of_cells, offset, value) ==
    [k \in 0..48 |->
        IF k = offset THEN value
        ELSE IF k = 2 THEN number_of_cells
        ELSE IF k = 19 THEN 6
        ELSE IF k = 28 THEN 20
        ELSE 0]

\* the two characters of an address
Adr(a) == FormatX(a, 2)

TelemetryResponse(a, number_of_cells, cells) ==
    ResponseFrame(Adr(a), <<52, 54>>, <<48, 48>>,
                  TelemetryInfo(number_of_cells, cells, 0 - 150, 5280))

TelesignalizationResponse(a, bytes) ==
    ResponseFrame(Adr(a), <<52, 54>>, <<48, 48>>, TelesignalizationInfo(bytes))

ReplaceAt(s, k, c) == [s EXCEPT ![k] = c]

\* a telemetry response, its checksum right, whose ADR field is two blanks
BlankAdr ==
    ResponseFrame(<<32, 32>>, <<52, 54>>, <<48, 48>>,
                  TelemetryInfo(16, [k \in 1..16 |-> 3300], 0 - 150, 5280))

CellsA == [k \in 1..16 |-> 3300]
CellsB == [k \in 1..16 |-> IF k = 5 THEN 3450 ELSE IF k = 9 THEN 3150 ELSE 3300]
CellsD == [k \in 1..16 |-> 3450]

---------------------------------------------------------------------------
(* The process: configuration, the pack objects, read_serial_data and the  *)
(* main loop.                                                              *)

\* config: FETCH_MASTER, NUMBER_OF_SLAVES
FETCH_MASTER == TRUE
NUMBER_OF_SLAVES == 1

\* the values the command iteration counters are followed through
MaxIteration == 6

\* how often a command is written again: every ResendPeriod-th iteration
ResendPeriod == 5

\* the addresses of battery_packs, master first
battery_packs ==
    (IF FETCH_MASTER THEN <<0>> ELSE <<>>) \o [k \in 1..NUMBER_OF_SLAVES |-> k]

\* what the bus may deliver to read_until(b'\r'): for every pack two
\* telemetry responses and a telesignalization response; for the first pack
\* a second telesignalization response and a telemetry response of 15 cells;
\* a lone EOI; a response with whitespace at the address and in the payload;
\* a telemetry response whose address field is two blanks.
BusFrames ==
    UNION {{TelemetryResponse(battery_packs[k], 16, CellsA),
            TelemetryResponse(battery_packs[k], 16, CellsB),
            TelesignalizationResponse(battery_packs[k], TelesignalizationBytes(16, 30, 0))}
           : k \in 1..Len(battery_packs)}
    \cup {TelesignalizationResponse(battery_packs[1], TelesignalizationBytes(16, 30, 1)),
          TelemetryResponse(battery_packs[1], 15, CellsD),
          <<13>>,
          ReplaceAt(ReplaceAt(TelemetryResponse(battery_packs[1], 16, CellsA), 4, 32), 21, 32),
          BlankAdr}

\* read_serial_data's telemetry_command and telesignalization_command, of
\* every pack of battery_packs
telemetry_command ==
    [k \in 1..Len(battery_packs) |-> encode_cmd(battery_packs[k], 66, <<48, 49>>)]

telesignalization_command ==
    [k \in 1..Len(battery_packs) |-> encode_cmd(battery_packs[k], 68, <<48, 49>>)]

\* response_verdict of every response the bus may deliver, for every pack of
\* battery_packs and both command loops
bus_verdict ==
    [raw_data \in BusFrames |->
        [k \in 1..Len(battery_packs) |->
            [telemetry |-> response_verdict(raw_data, battery_packs[k], 150),
             telesignalization |-> response_verdict(raw_data, battery_packs[k], 98)]]]

\* Python's False, as read_serial_data returns it
False == [False |-> TRUE]

\* SERIAL_MASTER_INSTANCE for pack 0, SERIAL_SLAVES_INSTANCE for the others
serial_instance(pack_address) == IF pack_address = 0 THEN "master" ELSE "slaves"

\* the counter after "+= 1".  The code reads it only in "== 1" and "% 5 == 0";
\* beyond MaxIteration it is followed through the least value above 1 with the
\* same remainder, which both tests cannot tell from the true one.
NextIteration(n) ==
    IF n < MaxIteration THEN n + 1
    ELSE SetMin({k \in 2..MaxIteration : k % ResendPeriod = (n + 1) % ResendPeriod})

\* mutant: the comparison with last_status is lost
compare_last_status_always_new(last_status, data) ==
    [last_status |-> data, ret |-> data]

\* mutant: a changed composite is returned but last_status keeps the old one
compare_last_status_kept_old(last_status, data) ==
    IF last_status = <<>> THEN [last_status |-> data, ret |-> data]
    ELSE IF last_status = data THEN [last_status |-> last_status, ret |-> False]
    ELSE [last_status |-> last_status, ret |-> data]

\* read_serial_data, "keep current stats to check if they changed": the new
\* last_status and the value returned
compare_last_status(last_status, data) ==
    IF last_status = <<>> THEN [last_status |-> data, ret |-> data]
    ELSE IF last_status = data THEN [last_status |-> last_status, ret |-> False]
    ELSE [last_status |-> data, ret |-> data]

\* graceful_exit on io = [serial, mqtt]: the mqtt client, if connected, sends
\* "offline" and disconnects; both serial instances, if not None, are closed
graceful_exit(io) ==
    [serial |-> [io.serial EXCEPT !.open = {}],
     mqtt |-> [io.mqtt EXCEPT !.connected = FALSE]]

PollerInit ==
    /\ i = 0
    /\ pc = "main"
    /\ iteration = 1
    /\ packs = [k \in 1..Len(battery_packs) |-> SeplosBatteryPack(battery_packs[k])]
    /\ battery_pack_data = [telemetry |-> <<>>, telesignalization |-> <<>>]
    /\ ret = False
    /\ mqtt = [published |-> FALSE, address |-> 0, payload |-> <<>>, connected |-> TRUE]
    /\ serial = [instance |-> "none", written |-> <<>>, commands |-> {},
                 flushed |-> FALSE,
                 open |-> (IF FETCH_MASTER THEN {"master"} ELSE {}) \cup {"slaves"}]
    /\ exception = "none"
    /\ hist = [k \in 1..Len(battery_packs) |-> [prev |-> <<>>, cur |-> <<>>]]

Init == PollerInit /\ test = [op |-> "none"]

\* mutant: read_serial_data does not flush the buffers
Fetch_without_flush ==
    /\ pc = "main"
    /\ pc' = "telemetry"
    /\ iteration' = 1
    /\ battery_pack_data' = [telemetry |-> <<>>, telesignalization |-> <<>>]
    /\ serial' = [serial EXCEPT !.instance = serial_instance(packs[i + 1].pack_address),
                                !.written = <<>>,
                                !.commands = {}]
    /\ hist' = [hist EXCEPT ![i + 1].cur = <<>>]
    /\ UNCHANGED <<i, packs, ret, mqtt, exception, test>>

\* main loop: the pack of this round is taken and read_serial_data entered,
\* up to the first telemetry loop: both buffers flushed, the counter set
Fetch ==
    /\ pc = "main"
    /\ pc' = "telemetry"
    /\ iteration' = 1
    /\ battery_pack_data' = [telemetry |-> <<>>, telesignalization |-> <<>>]
    /\ serial' = [serial EXCEPT !.instance = serial_instance(packs[i + 1].pack_address),
                                !.written = <<>>,
                                !.commands = {},
                                !.flushed = TRUE]
    /\ hist' = [hist EXCEPT ![i + 1].cur = <<>>]
    /\ UNCHANGED <<i, packs, ret, mqtt, exception, test>>

\* mutant: every pass of a loop writes the command
Written_every_pass(command) == command

\* mutant: the first pass of a loop writes nothing
Written_on_resend_only(command) ==
    IF iteration % ResendPeriod = 0 THEN command ELSE <<>>

\* what one pass of a command loop writes: the command, on the first pass and
\* on every ResendPeriod-th, else nothing
Written(command) ==
    IF iteration = 1 \/ iteration % ResendPeriod = 0 THEN command ELSE <<>>

\* the serial port and the mqtt client after a pass that wrote `written` on
\* the pack's instance; `exited`: the pass raised, the exception left the
\* main loop and the module's finally clause called graceful_exit
AfterPass(pack, written, exited) ==
    LET io == [serial |-> [instance |-> serial_instance(pack.pack_address),
                           written |-> written,
                           commands |-> IF written = <<>> THEN serial.commands
                                        ELSE serial.commands \cup {written},
                           flushed |-> FALSE,
                           open |-> serial.open],
               mqtt |-> mqtt]
    IN  IF exited THEN graceful_exit(io) ELSE io

\* one pass of the telemetry loop, the bus delivering raw_data; the decoder
\* is called once, on an accepted response
TelemetryPoll(raw_data) ==
    /\ pc = "telemetry"
    /\ LET pack == packs[i + 1]
           verdict == bus_verdict[raw_data][i + 1].telemetry
       IN  /\ IF verdict = "raised"
              THEN /\ pc' = "exited"
                   /\ exception' = "ValueError"
                   /\ iteration' = NextIteration(iteration)
                   /\ UNCHANGED <<packs, battery_pack_data, hist>>
              ELSE IF verdict = "rejected"
              THEN /\ iteration' = NextIteration(iteration)
                   /\ UNCHANGED <<pc, exception, packs, battery_pack_data, hist>>
              ELSE \E decoded \in {decode_telemetry_feedback_frame(
                                       pack.telemetry, PySlice(raw_data, 13, 0 - 5))} :
                   /\ packs' = [packs EXCEPT ![i + 1].telemetry = decoded.telemetry]
                   /\ IF decoded.exc # "none"
                      THEN /\ pc' = "exited"
                           /\ exception' = decoded.exc
                           /\ iteration' = NextIteration(iteration)
                           /\ UNCHANGED <<battery_pack_data, hist>>
                      ELSE /\ pc' = "telesignalization"
                           /\ iteration' = 1
                           /\ battery_pack_data' =
                                  [battery_pack_data EXCEPT !.telemetry = decoded.feedback]
                           /\ hist' = [hist EXCEPT ![i + 1].cur = <<raw_data>>]
                           /\ UNCHANGED exception
           /\ \E io \in {AfterPass(pack, Written(telemetry_command[i + 1]),
                                   pc' = "exited")} :
                  serial' = io.serial /\ mqtt' = io.mqtt
    /\ UNCHANGED <<i, ret, test>>

\* one pass of the telesignalization loop, the bus delivering raw_data; on a
\* response that is accepted and decoded read_serial_data goes on to compare
\* the composite with last_status and returns
TelesignalizationPoll(raw_data) ==
    /\ pc = "telesignalization"
    /\ LET pack == packs[i + 1]
           verdict == bus_verdict[raw_data][i + 1].telesignalization
       IN  /\ iteration' = NextIteration(iteration)
           /\ IF verdict = "raised"
              THEN /\ pc' = "exited"
                   /\ exception' = "ValueError"
                   /\ UNCHANGED <<packs, battery_pack_data, ret, hist>>
              ELSE IF verdict = "rejected"
              THEN UNCHANGED <<pc, exception, packs, battery_pack_data, ret, hist>>
              ELSE \E decoded \in {decode_telesignalization_feedback_frame(
                                       pack.telesignalization, PySlice(raw_data, 13, 0 - 5))} :
                   IF decoded.exc # "none"
                   THEN /\ pc' = "exited"
                        /\ exception' = decoded.exc
                        /\ UNCHANGED <<packs, battery_pack_data, ret, hist>>
                   ELSE \E data \in {[battery_pack_data EXCEPT
                                         !.telesignalization = decoded.feedback]} :
                        LET kept == compare_last_status(pack.last_status, data)
                        IN  /\ pc' = "returned"
                            /\ packs' = [packs EXCEPT
                                  ![i + 1].telesignalization = decoded.telesignalization,
                                  ![i + 1].last_status = kept.last_status]
                            /\ battery_pack_data' = data
                            /\ ret' = kept.ret
                            /\ hist' = [hist EXCEPT ![i + 1].cur = Append(@, raw_data)]
                            /\ UNCHANGED exception
           /\ \E io \in {AfterPass(pack, Written(telesignalization_command[i + 1]),
                                   pc' = "exited")} :
                  serial' = io.serial /\ mqtt' = io.mqtt
    /\ UNCHANGED <<i, test>>

\* main loop, after read_serial_data returned: publish what it returned unless
\* that is False, then step the index round the list
Publish ==
    /\ pc = "returned"
    /\ pc' = "main"
    /\ mqtt' = IF ret # False
               THEN [published |-> TRUE, address |-> battery_packs[i + 1], payload |-> ret,
                     connected |-> mqtt.connected]
               ELSE [published |-> FALSE, address |-> battery_packs[i + 1], payload |-> <<>>,
                     connected |-> mqtt.connected]
    /\ i' = IF i + 1 >= Len(battery_packs) THEN 0 ELSE i + 1
    /\ hist' = [hist EXCEPT ![i + 1] = [prev |-> @.cur, cur |-> <<>>]]
    /\ UNCHANGED <<iteration, packs, battery_pack_data, ret, serial, exception, test>>

\* SIGTERM is delivered: Python runs the handler graceful_exit in the main
\* thread wherever that is, also inside a blocking read_until, and its
\* sys.exit(0) ends the process there
Sigterm ==
    /\ pc # "exited"
    /\ pc' = "exited"
    /\ exception' = "SystemExit"
    /\ \E io \in {graceful_exit([serial |-> serial, mqtt |-> mqtt])} :
           serial' = io.serial /\ mqtt' = io.mqtt
    /\ UNCHANGED <<i, iteration, packs, battery_pack_data, ret, hist, test>>

Next ==
    \/ Fetch
    \/ \E raw_data \in BusFrames : TelemetryPoll(raw_data)
    \/ \E raw_data \in BusFrames : TelesignalizationPoll(raw_data)
    \/ Publish
    \/ Sigterm

Spec == Init /\ [][Next]_vars

\* the process is one thread that is never descheduled for ever, and every
\* read_until returns (the bus delivers frames): a step that can be taken is
\* taken
FairSpec == Spec /\ WF_vars(Next)

---------------------------------------------------------------------------
(* Properties of the polling loop. *)

\* a command loop of read_serial_data is being run
InCommandLoop == pc \in {"telemetry", "telesignalization"}

\* C1: a command poll in which every response fails validation ends after
\* exactly 5 attempts: no command loop is ever about to make a sixth pass.
\* (iteration is the number of the pass about to be made; the only 5 of the
\* loops is ResendPeriod.)
C1_RetryBound == InCommandLoop => iteration <= ResendPeriod

\* C2: a pack that never answers validly does not block the others: unless
\* the process is ended by an exception, every configured pack is taken up by
\* the main loop again and again.
C2_EveryPackPolled ==
    \/ <>(pc = "exited")
    \/ \A k \in 1..Len(battery_packs) : []<>(pc = "main" /\ i = k - 1)

\* the poll that has just returned read the very responses the pack's
\* previous poll read
SameResponsesAgain ==
    /\ pc = "returned"
    /\ hist[i + 1].prev # <<>>
    /\ hist[i + 1].cur = hist[i + 1].prev

\* C3: when a pack's poll reads the same valid telemetry and
\* telesignalization responses as its previous poll, read_serial_data returns
\* False and the main loop, going on from there, publishes nothing for it.
C3_ChangeSuppression ==
    [][SameResponsesAgain => (ret = False /\ (pc' = "main" => ~mqtt'.published))]_vars

C3_Witness == SameResponsesAgain /\ ret = False /\ Len(hist[i + 1].cur) = 2

\* a pass of a command loop (not the delivery of a signal)
PollPass == InCommandLoop /\ exception' # "SystemExit"

\* this step writes `command` to the serial port
Writes(command) == PollPass /\ serial'.written = command

\* C13: packs are polled in the cyclic order of the pack list (the index
\* stays within 0..len-1 and steps to the next pack, to 0 after the last,
\* only when a poll has returned); every command written is a command of the
\* pack being polled; the telesignalization command is written only after
\* the telemetry command was written and a valid telemetry response received
\* in this cycle, and the telemetry command only before that response.
C13_PollOrdering ==
    [][/\ i' \in 0..(Len(battery_packs) - 1)
       /\ pc = "returned" /\ pc' = "main" => i' = (i + 1) % Len(battery_packs)
       /\ i' # i => pc = "returned" /\ pc' = "main"
       /\ PollPass /\ serial'.written # <<>> =>
              serial'.written \in {telemetry_command[i + 1],
                                   telesignalization_command[i + 1]}
       /\ Writes(telemetry_command[i + 1]) => hist[i + 1].cur = <<>>
       /\ Writes(telesignalization_command[i + 1]) =>
              /\ telemetry_command[i + 1] \in serial.commands
              /\ Len(hist[i + 1].cur) = 1
              /\ bus_verdict[hist[i + 1].cur[1]][i + 1].telemetry = "accepted"
      ]_vars

\* the last pack's cycle wrote both its commands and the index wrapped
C13_Witness ==
    /\ pc = "main"
    /\ i = 0
    /\ mqtt.address = battery_packs[Len(battery_packs)]
    /\ Len(battery_packs) > 1
    /\ serial.commands = {telemetry_command[Len(battery_packs)],
                          telesignalization_command[Len(battery_packs)]}

\* read_serial_data has returned a composite (not False) to the main loop
YieldsComposite == pc = "returned" /\ ret # False

\* C14: a composite is returned only if, within that call, a telemetry and a
\* telesignalization response each passed validation, and its two parts are
\* the decodes of exactly those two responses: what a pack object holding no
\* data of an earlier cycle decodes from them.
C14_CompositeOfThisCall ==
    YieldsComposite =>
        LET cur == hist[i + 1].cur
            pack == SeplosBatteryPack(battery_packs[i + 1])
        IN  /\ Len(cur) = 2
            /\ bus_verdict[cur[1]][i + 1].telemetry = "accepted"
            /\ bus_verdict[cur[2]][i + 1].telesignalization = "accepted"
            /\ \E t \in {decode_telemetry_feedback_frame(
                             pack.telemetry, PySlice(cur[1], 13, 0 - 5))} :
                   t.exc = "none" /\ ret.telemetry = t.feedback
            /\ \E t \in {decode_telesignalization_feedback_frame(
                             pack.telesignalization, PySlice(cur[2], 13, 0 - 5))} :
                   t.exc = "none" /\ ret.telesignalization = t.feedback

\* the command of the loop the poller is in
LoopCommand ==
    IF pc = "telemetry" THEN telemetry_command[i + 1]
    ELSE telesignalization_command[i + 1]

\* C24, as stated: after every response that fails validation the command
\* is written again before the next read: every pass of a command loop, the
\* first and each one after a failed response, writes the command once before
\* it reads.
C24_ResendOnEveryFailure ==
    [][PollPass => serial'.written = LoopCommand]_vars

\* C24, amended: a pass of a command loop writes the command before it reads
\* exactly when the loop counter is 1 or a multiple of 5, and writes nothing
\* otherwise: a failed response is followed by a read without a write unless
\* the next pass is the 5th, 10th, ...
C24_ResendEveryFifthPass ==
    [][PollPass =>
           serial'.written =
               IF iteration = 1 \/ iteration % ResendPeriod = 0
               THEN LoopCommand ELSE <<>>]_vars

\* the fifth pass of a telemetry loop has written the command again
C24_Witness ==
    /\ pc = "telemetry"
    /\ iteration = ResendPeriod + 1
    /\ serial.written = telemetry_command[i + 1]
    /\ hist[i + 1].cur = <<>>

\* C25, as stated: every write of a command (the first telemetry send, the
\* telesignalization send and every resend) is immediately preceded by a
\* flush of the input and output buffers, with no read in between.
C25_FlushBeforeEverySend ==
    [][PollPass /\ serial'.written # <<>> => serial.flushed]_vars

\* C25, amended: the buffers are flushed once, on entry to read_serial_data:
\* the first telemetry send of a call is immediately preceded by the flush,
\* with no read in between, and no other write (the telesignalization send,
\* a resend) is.
C25_FlushBeforeFirstSend ==
    [][PollPass =>
           /\ (pc = "telemetry" /\ iteration = 1) =>
                  (serial.flushed /\ serial'.written = telemetry_command[i + 1])
           /\ serial'.written # <<>> =>
                  (serial.flushed <=> (pc = "telemetry" /\ iteration = 1))]_vars

\* the first pass of a telemetry loop has written the command after the
\* flush and read a response, which failed validation
C25_Witness ==
    /\ pc = "telemetry"
    /\ iteration = 2
    /\ serial.written = telemetry_command[i + 1]
    /\ ~serial.flushed
    /\ i = 1

\* the last response the pack of this round accepted in this call
AcceptedNow == hist'[i + 1].cur[Len(hist'[i + 1].cur)]

\* C26: pack state isolation. A step of the poll of one pack leaves the
\* telemetry, the telesignalization and the last_status of every other pack
\* as they were, and the pack polled changes state only on a response whose
\* ADR field is the two hex digits of the pack's own address.
C26_PackStateIsolation ==
    [][/\ \A k \in 1..Len(battery_packs) : k # i + 1 => packs'[k] = packs[k]
       /\ (packs'[i + 1] # packs[i + 1] /\ hist'[i + 1].cur # <<>>)
              => PySlice(AcceptedNow, 3, 5) = Adr(packs[i + 1].pack_address)]_vars

\* this step completes a poll: the telesignalization response was decoded
CompletesPoll == pc = "telesignalization" /\ pc' = "returned"

\* C27: a pack's last_status changes only in the step that completes a poll
\* of that pack and then equals the composite of that poll, so between polls
\* it is the composite of the most recent one; the poll returns a composite
\* exactly when it differs from the last_status left by the preceding poll
\* (none on the first poll), and the main loop publishes that composite for
\* that pack exactly when one was returned.
C27_LastStatusAndPublish ==
    [][/\ CompletesPoll =>
              /\ packs'[i + 1].last_status = battery_pack_data'
              /\ (ret' # False) <=> (battery_pack_data' # packs[i + 1].last_status)
              /\ ret' # False => ret' = battery_pack_data'
       /\ \A k \in 1..Len(battery_packs) :
              packs'[k].last_status # packs[k].last_status
                  => (k = i + 1 /\ CompletesPoll)
       /\ (pc = "returned" /\ pc' = "main") =>
              /\ mqtt'.published <=> (ret # False)
              /\ mqtt'.published =>
                     /\ mqtt'.payload = packs[i + 1].last_status
                     /\ mqtt'.address = packs[i + 1].pack_address]_vars

\* a poll, not the pack's first, returned a composite that differs from the
\* one of the poll before
C27_Witness ==
    /\ pc = "returned"
    /\ ret # False
    /\ hist[i + 1].prev # <<>>
    /\ hist[i + 1].cur # hist[i + 1].prev
    /\ packs[i + 1].last_status = ret

\* this step is the shutdown signal taking effect
ShutdownTakesEffect == exception # "SystemExit" /\ exception' = "SystemExit"

\* C15: a shutdown signal takes effect only between pack cycles (the main
\* loop is about to take a pack, or a poll has returned), never inside an
\* in-flight read or poll of a pack, and every opened serial instance is
\* closed before the process exits.
C15_ShutdownBetweenCycles ==
    [][ShutdownTakesEffect =>
           /\ pc \in {"main", "returned"}
           /\ serial'.open = {}
           /\ pc' = "exited"]_vars

---------------------------------------------------------------------------
(* int_from_2byte_hex_ascii on the 4-digit rendering of every 16-bit value. *)

\* the 4 upper-case hex digits of v mod 65536, as f"{x:04X}" writes them
Hex4(v) == FormatX(v % 65536, 4)

CodecInit ==
    /\ PollerInit
    /\ test \in [op : {"hex"}, signed : {FALSE}, v : 0..65535]
                  \cup [op : {"hex"}, signed : {TRUE}, v : (0 - 32768)..32767]

CodecDecode ==
    /\ test.op = "hex"
    /\ test' = [op |-> "decoded", signed |-> test.signed, v |-> test.v,
                out |-> int_from_2byte_hex_ascii(Hex4(test.v), 0, test.signed)]
    /\ UNCHANGED pollerVars

CodecNext == CodecDecode

SpecCodec == CodecInit /\ [][CodecNext]_vars

\* C9: decoding the 4-digit hex rendering of an unsigned v in 0..65535 with
\* signed=False, or of v mod 65536 for a signed v in -32768..32767 with
\* signed=True, returns v.
C9_HexRoundTrip ==
    test.op = "decoded" => test.out = [exc |-> "none", val |-> test.v]

C9_Witness ==
    /\ test.op = "decoded"
    /\ test.signed
    /\ test.v < 0
    /\ test.out.val = test.v

---------------------------------------------------------------------------
(* encode_cmd on every address and command code. *)

\* the default info b"01" of encode_cmd
DefaultInfo == <<48, 49>>

\* two infos of 928 hex digits: 928 times "F", and 926 times "F" before "10"
LongInfoF == [k \in 1..928 |-> 70]
LongInfoF10 == [k \in 1..928 |-> IF k = 927 THEN 49 ELSE IF k = 928 THEN 48 ELSE 70]

EncodeInit ==
    /\ PollerInit
    /\ test \in [op : {"cmd"}, address : 0..255, cid2 : 0..255, info : {DefaultInfo, <<>>}]
                  \cup [op : {"cmd"}, address : {0, 1}, cid2 : {66, 68},
                        info : {LongInfoF, LongInfoF10}]

Encode ==
    /\ test.op = "cmd"
    /\ test' = [op |-> "encoded", address |-> test.address, cid2 |-> test.cid2,
                info |-> test.info,
                frame |-> encode_cmd(test.address, test.cid2, test.info)]
    /\ UNCHANGED pollerVars

EncodeNext == Encode

SpecEncode == EncodeInit /\ [][EncodeNext]_vars

\* C7: the frame F that encode_cmd returns, for every address, command code
\* and info, carries its own checksum: calculate_frame_checksum(F[1:-5]) is
\* the integer of the 4 hex characters F[-5:-1].
C7_BuiltFrameChecksum ==
    test.op = "encoded" =>
        int_from_2byte_hex_ascii(test.frame, 0 - 5, FALSE)
            = [exc |-> "none",
               val |-> calculate_frame_checksum(PySlice(test.frame, 1, 0 - 5))]

\* encode_cmd(0x01, 0x42) was called with the default info
GoldenCommand ==
    /\ test.op = "encoded"
    /\ test.address = 1
    /\ test.cid2 = 66
    /\ test.info = DefaultInfo

\* C8, as stated: encode_cmd(0x01, 0x42) with the default info yields the
\* bytes ~20014600023200020046\r.
C8_GoldenFrameAsStated ==
    GoldenCommand =>
        test.frame = <<126, 50, 48, 48, 49, 52, 54, 48, 48, 48, 50, 51, 50,
                       48, 48, 48, 50, 48, 48, 52, 54, 13>>

\* C8, amended: encode_cmd(0x01, 0x42) with the default info yields the
\* bytes ~20014642E00201FD35\r.
C8_GoldenFrame ==
    GoldenCommand =>
        test.frame = <<126, 50, 48, 48, 49, 52, 54, 52, 50, 69, 48, 48, 50,
                       48, 49, 70, 68, 51, 53, 13>>

C8_Witness == GoldenCommand /\ Len(test.frame) = 20

---------------------------------------------------------------------------
(* The validation of read_serial_data on one response: what the bus may    *)
(* deliver, and the same with one bit flipped, one character replaced or   *)
(* the tail cut off.                                                       *)

\* responses with a correct CHKSUM that are not what a pack sends: the first
\* two characters of INFO blank, CID1 not hex, RTN not "00"
BlankInInfo ==
    ResponseFrame(Adr(battery_packs[1]), <<52, 54>>, <<48, 48>>,
                  ReplaceAt(ReplaceAt(TelemetryInfo(16, CellsA, 0 - 150, 5280), 1, 32), 2, 32))

NonHexCid1 ==
    ResponseFrame(Adr(battery_packs[1]), <<90, 90>>, <<48, 48>>,
                  TelemetryInfo(16, CellsA, 0 - 150, 5280))

ErrorRtn ==
    ResponseFrame(Adr(battery_packs[1]), <<52, 54>>, <<48, 50>>,
                  TelemetryInfo(16, CellsA, 0 - 150, 5280))

ValidateFrames == BusFrames \cup {BlankInInfo, NonHexCid1, ErrorRtn}

\* where a character is replaced (ADR, CID1, RTN, INFO), and by what (blank,
\* "1", "G", a byte that is not ASCII)
EditPositions == {4, 5, 6, 8, 9, 14, 21}
EditChars == {32, 49, 71, 200}

\* the lengths a partial read is cut to
CutLengths == {0, 1, 5, 80, 81, 100}

ValidateInit ==
    /\ PollerInit
    /\ test \in [op : {"read"}, change : {"none"}, raw_data : ValidateFrames,
                 pack_address : {battery_packs[k] : k \in 1..Len(battery_packs)},
                 expected_length : {150, 98}]

\* read_serial_data from the slicing of raw_data to the if before the decoder
Validate ==
    /\ test.op = "read"
    /\ test' = [op |-> "judged", change |-> test.change, raw_data |-> test.raw_data,
                pack_address |-> test.pack_address,
                expected_length |-> test.expected_length,
                verdict |-> response_verdict(test.raw_data, test.pack_address,
                                             test.expected_length)]
    /\ UNCHANGED pollerVars

\* the response that comes next is `raw_data`, a variation of the one judged
NextRead(change, raw_data) ==
    /\ test.op = "judged"
    /\ test.change = "none"
    /\ test' = [op |-> "read", change |-> change, raw_data |-> raw_data,
                pack_address |-> test.pack_address,
                expected_length |-> test.expected_length]
    /\ UNCHANGED pollerVars

\* an accepted response with bit b of the k-th character of its INFO
\* (raw_data[13:-5]) flipped
FlipBit(k, b) ==
    /\ test.op = "judged"
    /\ test.verdict = "accepted"
    /\ k < Len(test.raw_data) - 18
    /\ NextRead("flip", [test.raw_data EXCEPT ![14 + k] = BitXor(@, 2^b)])

\* a response with one character replaced
Edit(k, c) ==
    /\ k <= Len(test.raw_data)
    /\ test.raw_data[k] # c
    /\ NextRead("edit", ReplaceAt(test.raw_data, k, c))

\* a partial read
Cut(n) ==
    /\ n < Len(test.raw_data)
    /\ NextRead("cut", SubSeq(test.raw_data, 1, n))

ValidateNext ==
    \/ Validate
    \/ \E k \in 0..149, b \in 0..7 : FlipBit(k, b)
    \/ \E k \in EditPositions, c \in EditChars : Edit(k, c)
    \/ \E n \in CutLengths : Cut(n)

SpecValidate == ValidateInit /\ [][ValidateNext]_vars

\* a response has been put to the validation
Judged == test.op = "judged"

\* the text is made of hex digits only
IsHexAscii(s) == \A k \in 1..Len(s) : DigitValue(s[k]) < 16

\* the number a text of hex digits writes
RECURSIVE HexNumber(_)
HexNumber(s) ==
    IF s = <<>> THEN 0
    ELSE 16 * HexNumber(SubSeq(s, 1, Len(s) - 1)) + DigitValue(s[Len(s)])

\* the six conditions of C4 on a response
SixConditions(raw_data, pack_address, expected_length) ==
    /\ Len(raw_data) >= 81
    /\ IsHexAscii(PySlice(raw_data, 3, 5))
    /\ HexNumber(PySlice(raw_data, 3, 5)) = pack_address
    /\ Len(PySlice(raw_data, 13, 0 - 5)) = expected_length
    /\ IsHexAscii(PySlice(raw_data, 13, 0 - 5))
    /\ IsHexAscii(PySlice(raw_data, 0 - 5, 0 - 1))
    /\ (SumBytes(PySlice(raw_data, 1, 0 - 5)) % 65535)
          + HexNumber(PySlice(raw_data, 0 - 5, 0 - 1)) = 65536
    /\ PySlice(raw_data, 7, 9) = <<48, 48>>

\* C4: a response is accepted for decoding if and only if its length is at
\* least 81, ADR is the hex of the polled address, INFO has the expected
\* length and is hex ASCII, CHKSUM is the checksum of raw[1:-5], and the
\* field raw[7:9] is "00".
C4_AcceptedIffSixConditions ==
    Judged =>
        (test.verdict = "accepted"
            <=> SixConditions(test.raw_data, test.pack_address, test.expected_length))

\* C5: an accepted response with any single bit of any one character of its
\* INFO flipped, CHKSUM untouched, is rejected.
C5_BitFlipRejected ==
    (Judged /\ test.change = "flip") => test.verdict = "rejected"

C5_Witness ==
    /\ Judged
    /\ test.change = "flip"
    /\ test.verdict = "rejected"
    /\ test.raw_data[14] = 32

\* C6: no response, however malformed, makes read_serial_data raise: each is
\* either accepted or passed over for the next read.
C6_NoResponseRaises == Judged => test.verdict # "raised"

---------------------------------------------------------------------------
(* decode_telemetry_feedback_frame on payloads of 16 cells. *)

\* the cell voltages (mV) that differ from 3300 in at most two cells
CellVoltages == {3150, 3300, 3450}

TelemetryCells ==
    {[k \in 1..16 |-> IF k = p THEN vp ELSE IF k = q THEN vq ELSE 3300] :
        p \in 1..16, q \in 1..16, vp \in CellVoltages, vq \in CellVoltages}

TelemetryInit ==
    /\ PollerInit
    /\ test \in [op : {"payload"}, cells : TelemetryCells]

\* a new pack decodes the payload holding these 16 cell voltages
DecodeTelemetry ==
    /\ test.op = "payload"
    /\ LET decoded == decode_telemetry_feedback_frame(
                          Telemetry, TelemetryInfo(16, test.cells, 0 - 150, 5280))
       IN  test' = [op |-> "decoded", cells |-> test.cells,
                    exc |-> decoded.exc, feedback |-> decoded.feedback]
    /\ UNCHANGED pollerVars

TelemetryNext == DecodeTelemetry

SpecTelemetry == TelemetryInit /\ [][TelemetryNext]_vars

\* C10: for a payload of 16 cells the decoded highest_cell and lowest_cell
\* are the 1-indexed positions of the maximum and minimum cell voltage, the
\* lowest index on a tie; highest_cell_voltage and lowest_cell_voltage are
\* those voltages and delta_cell_voltage is their difference.
C10_TelemetryExtremes ==
    test.op = "decoded" =>
        LET hi == SetMax({test.cells[k] : k \in 1..16})
            lo == SetMin({test.cells[k] : k \in 1..16})
        IN  /\ test.exc = "none"
            /\ test.feedback.highest_cell = SetMin({k \in 1..16 : test.cells[k] = hi})
            /\ test.feedback.lowest_cell = SetMin({k \in 1..16 : test.cells[k] = lo})
            /\ test.feedback.highest_cell_voltage = hi
            /\ test.feedback.lowest_cell_voltage = lo
            /\ test.feedback.delta_cell_voltage = hi - lo

C10_Witness ==
    /\ test.op = "decoded"
    /\ test.cells = CellsB
    /\ test.feedback.highest_cell = 5
    /\ test.feedback.highest_cell_voltage = 3450
    /\ test.feedback.lowest_cell = 9
    /\ test.feedback.lowest_cell_voltage = 3150
    /\ test.feedback.delta_cell_voltage = 300


---------------------------------------------------------------------------
(* decode_telesignalization_feedback_frame on payloads that differ in the
   voltage-protection byte (warning 2, info byte offset 30) only. *)

TelesignalizationInit ==
    /\ PollerInit
    /\ test \in [op : {"payload"}, data_byte : 0..255]

\* a new pack decodes the payload holding this byte at offset 30
DecodeTelesignalization ==
    /\ test.op = "payload"
    /\ LET decoded == decode_telesignalization_feedback_frame(
                          Telesignalization,
                          TelesignalizationInfo(
                              TelesignalizationBytes(16, 30, test.data_byte)))
       IN  test' = [op |-> "decoded", data_byte |-> test.data_byte,
                    exc |-> decoded.exc, feedback |-> decoded.feedback]
    /\ UNCHANGED pollerVars

TelesignalizationNext == DecodeTelesignalization

SpecTelesignalization == TelesignalizationInit /\ [][TelesignalizationNext]_vars

\* C11: for every value of the voltage-protection byte, cell_overvoltage is
\* "Alarm" when bit 0 is set (whatever bit 1 is), "Protection" when bit 0 is
\* clear and bit 1 is set, and "OK" when both bits are clear.
C11_TwoBitProtectionDecode ==
    test.op = "decoded" =>
        /\ test.exc = "none"
        /\ test.feedback.cell_overvoltage =
               IF test.data_byte % 2 = 1 THEN "Alarm"
               ELSE IF (test.data_byte \div 2) % 2 = 1 THEN "Protection"
               ELSE "OK"


---------------------------------------------------------------------------
(* One pack object decoding payload after payload, in any order. *)

\* cell 16 differs from CellsA and CellsB
CellsC == [k \in 1..16 |-> IF k = 16 THEN 3450 ELSE 3300]

\* telemetry payloads of 16, 16 and 15 cells
TelemetryPayloads ==
    << TelemetryInfo(16, CellsA, 0 - 150, 5280),
       TelemetryInfo(16, CellsC, 0 - 150, 5280),
       TelemetryInfo(15, CellsB, 0 - 150, 5280) >>

\* telesignalization payloads of 16, 16 and 15 cells: a warning on cell 16,
\* cell 16 equalizing, nothing to report
TelesignalizationPayloads ==
    << TelesignalizationInfo(TelesignalizationBytes(16, 18, 1)),
       TelesignalizationInfo(TelesignalizationBytes(16, 37, 128)),
       TelesignalizationInfo(TelesignalizationBytes(15, 30, 0)) >>

NotDecoded == [decoded |-> FALSE, exc |-> "none", feedback |-> <<>>]

PackInit ==
    /\ PollerInit
    /\ test = [op |-> "pack",
               pack |-> SeplosBatteryPack(0),
               decoder |-> "none",
               payload |-> 0,
               output |-> NotDecoded,
               first |-> [decoder \in {"telemetry", "telesignalization"} |->
                             [k \in 1..3 |-> NotDecoded]]]

\* what this decode of payload k returned or raised, and what its first decode did
Decoded(decoder, k, pack, result) ==
    LET output == [decoded |-> TRUE, exc |-> result.exc, feedback |-> result.feedback]
    IN  test' = [op |-> "decoded",
                 pack |-> pack,
                 decoder |-> decoder,
                 payload |-> k,
                 output |-> output,
                 first |-> IF test.first[decoder][k].decoded THEN test.first
                           ELSE [test.first EXCEPT ![decoder][k] = output]]

PackDecodeTelemetry(k) ==
    /\ \E result \in {decode_telemetry_feedback_frame(
                          test.pack.telemetry, TelemetryPayloads[k])} :
           Decoded("telemetry", k,
                   [test.pack EXCEPT !.telemetry = result.telemetry], result)
    /\ UNCHANGED pollerVars

PackDecodeTelesignalization(k) ==
    /\ \E result \in {decode_telesignalization_feedback_frame(
                          test.pack.telesignalization, TelesignalizationPayloads[k])} :
           Decoded("telesignalization", k,
                   [test.pack EXCEPT !.telesignalization = result.telesignalization],
                   result)
    /\ UNCHANGED pollerVars

PackNext ==
    \/ \E k \in 1..3 : PackDecodeTelemetry(k)
    \/ \E k \in 1..3 : PackDecodeTelesignalization(k)

SpecPack == PackInit /\ [][PackNext]_vars

\* C12: decoding a payload on a pack object yields what the first decode of
\* that payload on the object yielded, whatever was decoded before or in
\* between.
C12_DecoderPurity ==
    test.op = "decoded" =>
        LET first == test.first[test.decoder][test.payload]
        IN  /\ test.output.exc = first.exc
            /\ test.output.exc = "none" => test.output.feedback = first.feedback


---------------------------------------------------------------------------
(* calculate_frame_checksum on frames of one repeated byte. *)

\* the longest frame: 257 bytes 0xFF sum to 0xFFFF
MaxFrameLen == 260

FrameBytes == {0, 1, 126, 255}

ChecksumInit ==
    /\ PollerInit
    /\ test \in [op : {"frame"}, length : 0..MaxFrameLen, byte : FrameBytes]

ChecksumOf ==
    /\ test.op = "frame"
    /\ LET frame == [k \in 1..test.length |-> test.byte]
       IN  test' = [op |-> "checksum", frame |-> frame,
                    checksum |-> calculate_frame_checksum(frame)]
    /\ UNCHANGED pollerVars

ChecksumNext == ChecksumOf

SpecChecksum == ChecksumInit /\ [][ChecksumNext]_vars

\* C16: calculate_frame_checksum returns an unsigned 16-bit value for every
\* byte sequence: it lies in 0..65535 and renders as exactly 4 hex digits,
\* also for the empty sequence and for a byte sum that is a multiple of
\* 0xFFFF.
C16_ChecksumIs16Bit ==
    test.op = "checksum" =>
        /\ test.checksum \in 0..65535
        /\ Len(FormatX(test.checksum, 4)) = 4


---------------------------------------------------------------------------
(* get_info_length on infos of every length a 12-bit field can hold. *)

MaxInfoLen == 4095

InfoLengthInit ==
    /\ PollerInit
    /\ test \in [op : {"info"}, length : 0..MaxInfoLen]

InfoLengthOf ==
    /\ test.op = "info"
    /\ LET info == [k \in 1..test.length |-> 48]
       IN  test' = [op |-> "info_length", length |-> Len(info),
                    info_length |-> get_info_length(info)]
    /\ UNCHANGED pollerVars

InfoLengthNext == InfoLengthOf

SpecInfoLength == InfoLengthInit /\ [][InfoLengthNext]_vars

\* the sum of the three nibbles of a 12-bit length
NibbleSum(n) == (n % 16) + ((n \div 16) % 16) + ((n \div 256) % 16)

\* C17: get_info_length returns 0 for an empty info, and for every info
\* length L in 1..4095 a value below 65536 whose low 12 bits equal L and
\* whose top nibble C satisfies (C + sum of the three nibbles of L) mod 16 = 0.
C17_InfoLengthField ==
    test.op = "info_length" =>
        IF test.length = 0 THEN test.info_length = 0
        ELSE /\ test.info_length < 65536
             /\ test.info_length % 4096 = test.length
             /\ ((test.info_length \div 4096) + NibbleSum(test.length)) % 16 = 0


---------------------------------------------------------------------------
(* The layout of the frames encode_cmd builds. *)

\* C18: for every address 0..255, command code 0..255 and info, encode_cmd
\* returns "~", "20", ADR as 2 uppercase hex digits, "46", CID2 as 2
\* uppercase hex digits, the info-length code as 4 hex digits, INFO, the
\* frame checksum as 4 hex digits and "\r": 18 + len(INFO) bytes in all.
C18_CommandFrameLayout ==
    test.op = "encoded" =>
        LET frame == test.frame
            n == Len(test.info)
        IN  /\ Len(frame) = 18 + n
            /\ PySlice(frame, 0, 1) = <<126>>
            /\ PySlice(frame, 1, 3) = <<50, 48>>
            /\ PySlice(frame, 3, 5) = FormatX(test.address, 2)
            /\ PySlice(frame, 5, 7) = <<52, 54>>
            /\ PySlice(frame, 7, 9) = FormatX(test.cid2, 2)
            /\ IsHexAscii(PySlice(frame, 9, 13))
            /\ HexNumber(PySlice(frame, 9, 13)) = get_info_length(test.info)
            /\ PySlice(frame, 13, 13 + n) = test.info
            /\ IsHexAscii(PySlice(frame, 13 + n, 17 + n))
            /\ HexNumber(PySlice(frame, 13 + n, 17 + n))
                   = calculate_frame_checksum(PySlice(frame, 1, 13 + n))
            /\ PySlice(frame, 17 + n, 18 + n) = <<13>>


---------------------------------------------------------------------------
(* int_from_1byte_hex_ascii and int_from_2byte_hex_ascii on short texts. *)

MaxFieldData == 4

\* "0", "1", "F", a blank and "G"
FieldChars == {48, 49, 70, 32, 71}

FieldData == UNION {[1..n -> FieldChars] : n \in 0..MaxFieldData}

HexFieldInit ==
    /\ PollerInit
    /\ test \in [op : {"field"}, data : FieldData, offset : 0..2, width : {1, 2}]

HexFieldOf ==
    /\ test.op = "field"
    /\ LET result == IF test.width = 1
                     THEN int_from_1byte_hex_ascii(test.data, test.offset, FALSE)
                     ELSE int_from_2byte_hex_ascii(test.data, test.offset, FALSE)
       IN  test' = [op |-> "parsed", data |-> test.data, offset |-> test.offset,
                    width |-> test.width, exc |-> result.exc, val |-> result.val]
    /\ UNCHANGED pollerVars

HexFieldNext == HexFieldOf

SpecHexField == HexFieldInit /\ [][HexFieldNext]_vars

\* C19: int_from_1byte_hex_ascii / int_from_2byte_hex_ascii fail with an
\* error instead of returning a value whenever the width*2 characters at the
\* offset contain a non-hex character or fewer than width*2 characters are
\* available at the offset (an empty slice included).
C19_HexFieldErrors ==
    test.op = "parsed" =>
        LET field == PySlice(test.data, test.offset, test.offset + 2 * test.width)
        IN  (Len(field) < 2 * test.width \/ ~IsHexAscii(field)) => test.exc # "none"


---------------------------------------------------------------------------
(* is_valid_hex_string on short byte strings. *)

MaxHexData == 4

\* "0", "F", "f", a blank, a tab, "G" and a byte that is not ASCII
HexDataChars == {48, 70, 102, 32, 9, 71, 200}

HexData == UNION {[1..n -> HexDataChars] : n \in 0..MaxHexData}

HexStringInit ==
    /\ PollerInit
    /\ test \in [op : {"data"}, data : HexData]

HexStringOf ==
    /\ test.op = "data"
    /\ test' = [op |-> "judged", data |-> test.data,
                valid |-> is_valid_hex_string(test.data)]
    /\ UNCHANGED pollerVars

HexStringNext == HexStringOf

SpecHexString == HexStringInit /\ [][HexStringNext]_vars

\* C20: is_valid_hex_string returns true if and only if the data has even
\* length and every character is a hex digit 0-9, a-f or A-F; it returns
\* false for data containing whitespace and for non-ASCII bytes.
C20_ValidHexIffEvenHexDigits ==
    test.op = "judged" =>
        (test.valid <=> (Len(test.data) % 2 = 0 /\ IsHexAscii(test.data)))


---------------------------------------------------------------------------
(* Telemetry payloads of fewer than 16 cells. *)

\* the number of cells and the cell voltages each of TelemetryPayloads holds
PayloadCells ==
    << [number_of_cells |-> 16, cells |-> CellsA],
       [number_of_cells |-> 16, cells |-> CellsC],
       [number_of_cells |-> 15, cells |-> CellsB] >>

\* C21: for a payload of N cells, 1 <= N <= 16, decode_telemetry_feedback_frame
\* succeeds, and average, lowest, highest and delta cell voltage are computed
\* over exactly the N cell voltages of this payload: no unpopulated slot and
\* no cell left from an earlier payload contributes.
C21_StatisticsOverThisFrame ==
    (test.op = "decoded" /\ test.decoder = "telemetry") =>
        LET n == PayloadCells[test.payload].number_of_cells
            cells == SubSeq(PayloadCells[test.payload].cells, 1, n)
            lowest == SetMin({cells[k] : k \in 1..n})
            highest == SetMax({cells[k] : k \in 1..n})
        IN  /\ test.output.exc = "none"
            /\ test.output.feedback.average_cell_voltage = RoundDiv(SumBytes(cells), n)
            /\ test.output.feedback.lowest_cell_voltage = lowest
            /\ test.output.feedback.highest_cell_voltage = highest
            /\ test.output.feedback.delta_cell_voltage = highest - lowest
            /\ test.output.feedback.lowest_cell \in 1..n
            /\ test.output.feedback.highest_cell \in 1..n


---------------------------------------------------------------------------
(* decode_telesignalization_feedback_frame on payloads that differ in one
   of the 24-byte alarm bytes: cell voltages at info bytes 3..18, cell
   temperatures at 20..23. *)

AlarmOffsets == (3..18) \cup (20..23)

AlarmInit ==
    /\ PollerInit
    /\ test \in [op : {"payload"}, offset : AlarmOffsets, alarm_type : 0..255]

\* a new pack decodes the payload holding this byte at this offset
DecodeAlarm ==
    /\ test.op = "payload"
    /\ LET decoded == decode_telesignalization_feedback_frame(
                          Telesignalization,
                          TelesignalizationInfo(
                              TelesignalizationBytes(16, test.offset, test.alarm_type)))
       IN  test' = [op |-> "decoded", offset |-> test.offset,
                    alarm_type |-> test.alarm_type,
                    exc |-> decoded.exc, feedback |-> decoded.feedback]
    /\ UNCHANGED pollerVars

AlarmNext == DecodeAlarm

SpecAlarm == AlarmInit /\ [][AlarmNext]_vars

\* the status of the alarm byte at info byte `offset` in the decoded dict
AlarmStatusAt(feedback, offset) ==
    IF offset < 20 THEN feedback.voltage_warning_cell[offset - 3 + 1]
    ELSE feedback.cell_temperature_warning[offset - 20 + 1]

\* C22: for every byte value 0..255 at an alarm offset the status is "OK"
\* for 0, "Alarm(low)" for 1, "Alarm(high)" for 2 and "Alarm(other)" for
\* every other value; the voltage alarm of cell i reads info byte 3 + i and
\* temperature alarm j reads info byte 20 + j.
C22_AlarmByteDecode ==
    test.op = "decoded" =>
        /\ test.exc = "none"
        /\ AlarmStatusAt(test.feedback, test.offset) =
               IF test.alarm_type = 0 THEN "OK"
               ELSE IF test.alarm_type = 1 THEN "Alarm(low)"
               ELSE IF test.alarm_type = 2 THEN "Alarm(high)"
               ELSE "Alarm(other)"
        /\ \A other \in AlarmOffsets \ {test.offset} :
               AlarmStatusAt(test.feedback, other) = "OK"


\* some alarm byte at info bytes lo..hi decoded to a status other than `ok`
AnyAlarm(feedback, lo, hi, ok) ==
    \E offset \in lo..hi : AlarmStatusAt(feedback, offset) # ok

\* C23: the telesignalization dict holds the summary flags
\* any_cell_voltage_alarm and any_cell_temperature_alarm, each active exactly
\* when at least one per-cell voltage (temperature) alarm result of the same
\* frame is not the all-clear status (the status of pack_voltage_warning,
\* whose byte is 0 in every payload decoded here).
C23_AnyCellAlarmFlags ==
    test.op = "decoded" =>
        /\ test.exc = "none"
        /\ {"any_cell_voltage_alarm", "any_cell_temperature_alarm"}
               \subseteq DOMAIN test.feedback
        /\ \E ok \in {test.feedback.pack_voltage_warning} :
               /\ (test.feedback["any_cell_voltage_alarm"] # ok)
                      <=> AnyAlarm(test.feedback, 3, 18, ok)
               /\ (test.feedback["any_cell_temperature_alarm"] # ok)
                      <=> AnyAlarm(test.feedback, 20, 23, ok)

---------------------------------------------------------------------------
(* Both decoders on accepted responses of every number_of_cells byte, on a *)
(* new pack object and on one that has decoded a response of 16 cells.     *)

\* the accepted response of pack 0 to `decoder`'s command whose
\* number_of_cells byte is n
CellsResponse(decoder, n) ==
    IF decoder = "telemetry" THEN TelemetryResponse(0, n, CellsA)
    ELSE TelesignalizationResponse(0, TelesignalizationBytes(n, 30, 0))

CellCountInit ==
    /\ PollerInit
    /\ test \in [op : {"response"},
                 decoder : {"telemetry", "telesignalization"},
                 number_of_cells : 0..255,
                 used : BOOLEAN]

\* read_serial_data's acceptance test and, on an accepted response, the
\* decoder, on a pack that is new or has decoded a response of 16 cells
DecodeAccepted ==
    /\ test.op = "response"
    /\ \E raw_data \in {CellsResponse(test.decoder, test.number_of_cells)},
          earlier \in {PySlice(CellsResponse(test.decoder, 16), 13, 0 - 5)},
          new \in {SeplosBatteryPack(0)} :
       \E pack \in {IF ~test.used THEN new
                     ELSE IF test.decoder = "telemetry"
                     THEN [new EXCEPT !.telemetry =
                              decode_telemetry_feedback_frame(@, earlier).telemetry]
                     ELSE [new EXCEPT !.telesignalization =
                              decode_telesignalization_feedback_frame(@, earlier).telesignalization]} :
       \E verdict \in {response_verdict(raw_data, pack.pack_address,
                                         IF test.decoder = "telemetry" THEN 150 ELSE 98)} :
       \E exc \in {IF verdict # "accepted" THEN "none"
                    ELSE IF test.decoder = "telemetry"
                    THEN decode_telemetry_feedback_frame(
                             pack.telemetry, PySlice(raw_data, 13, 0 - 5)).exc
                    ELSE decode_telesignalization_feedback_frame(
                             pack.telesignalization, PySlice(raw_data, 13, 0 - 5)).exc} :
           test' = [op |-> "decoded",
                    decoder |-> test.decoder,
                    number_of_cells |-> test.number_of_cells,
                    used |-> test.used,
                    verdict |-> verdict,
                    exc |-> exc]
    /\ UNCHANGED pollerVars

CellCountNext == DecodeAccepted

SpecCellCount == CellCountInit /\ [][CellCountNext]_vars

\* C28: every response that passes validation decodes without raising,
\* whatever its number_of_cells byte and whether the pack object is new or
\* has decoded before.
C28_AcceptedDecodes ==
    (test.op = "decoded" /\ test.verdict = "accepted") => test.exc = "none"

---------------------------------------------------------------------------
(* decode_telesignalization_feedback_frame on every value of the warning 4 *)
(* and warning 5 bytes (info bytes 32 and 33).                             *)

WarningOffsets == {32, 33}

WarningInit ==
    /\ PollerInit
    /\ test \in [op : {"payload"}, offset : WarningOffsets, data_byte : 0..255]

\* a new pack decodes the payload holding this byte at this offset
DecodeWarning ==
    /\ test.op = "payload"
    /\ LET decoded == decode_telesignalization_feedback_frame(
                          Telesignalization,
                          TelesignalizationInfo(
                              TelesignalizationBytes(16, test.offset, test.data_byte)))
       IN  test' = [op |-> "decoded", offset |-> test.offset,
                    data_byte |-> test.data_byte,
                    exc |-> decoded.exc, feedback |-> decoded.feedback,
                    telesignalization |-> decoded.telesignalization]
    /\ UNCHANGED pollerVars

WarningNext == DecodeWarning

SpecWarning == WarningInit /\ [][WarningNext]_vars

\* the status fields the decoder stores whose dictionary entry is not written
\* by the statement next to the assignment under the field's own name
LockFields == {"ambient_temp_low", "transient_overcurrent_lock", "output_short_circuit_lock"}

\* C29: the dictionary returned mirrors the stored reading: under the name
\* of each of ambient_temp_low, transient_overcurrent_lock and
\* output_short_circuit_lock it holds the value stored in that field.
C29_DictionaryMirrorsReading ==
    test.op = "decoded" =>
        /\ test.exc = "none"
        /\ LockFields \subseteq DOMAIN test.feedback
        /\ \A f \in LockFields : test.feedback[f] = test.telesignalization[f]

---------------------------------------------------------------------------
(* Home Assistant discovery (ha_auto_discovery.py): the entities            *)
(* create_autodiscovery_sensors publishes for a pack, and the payload the  *)
(* main loop publishes on the pack's sensors topic.                        *)

\* the value_template_key of every entry of the three template lists
TELEMETRY_SENSOR_TEMPLATES ==
    << "min_cell_voltage", "max_cell_voltage", "min_pack_voltage",
       "max_pack_voltage", "average_cell_voltage", "lowest_cell",
       "lowest_cell_voltage", "highest_cell", "highest_cell_voltage",
       "delta_cell_voltage", "delta_cell_temperature", "ambient_temperature",
       "components_temperature", "dis_charge_current", "dis_charge_power",
       "total_pack_voltage", "rated_capacity", "battery_capacity",
       "residual_capacity", "state_of_charge", "charging_cycles",
       "state_of_health", "port_voltage", "last_update" >>

TELESIGNALIZATION_SENSOR_TEMPLATES ==
    << "any_cell_voltage_alarm", "any_cell_temperature_alarm",
       "ambient_temperature_alarm", "component_temperature_alarm",
       "dis_charging_current_alarm", "pack_voltage_alarm", "system_status",
       "cell_overvoltage", "cell_voltage_low", "pack_overvoltage",
       "pack_voltage_low", "charging_temperature_high",
       "charging_temperature_low", "discharging_temperature_high",
       "discharging_temperature_low", "ambient_temperature_high",
       "ambient_temperature_low", "component_temperature_high",
       "charging_overcurrent", "discharging_overcurrent",
       "transient_overcurrent", "output_short_circuit", "soc_low" >>

TELESIGNALIZATION_BINARY_SENSOR_TEMPLATES ==
    << "voltage_sensing_failure", "temperature_sensing_failure",
       "current_sensing_failure", "power_switch_failure",
       "cell_voltage_difference_sensing_failure", "charging_switch_failure",
       "discharging_switch_failure", "current_limit_switch_failure",
       "low_temperature_heating", "charging_high_voltage_protection",
       "intermittent_power_supplement", "cell_low_voltage_forbidden_charging",
       "output_reverse_polarity_protection", "output_connection_failure",
       "auto_charging_wait", "manual_charging_wait", "eep_storage_failure",
       "rtc_clock_failure", "no_calibration_of_voltage",
       "no_calibration_of_current", "no_calibration_of_null_point",
       "discharge_switch", "charge_switch", "current_limit_switch",
       "heating_switch" >>

\* a dictionary key: name when n = 0, else the numbered key f"{name}_{n}"
Key(name, n) == [name |-> name, n |-> n]

\* _build_base_entity under _build_sensor_config: the state topic (of the
\* pack) and the path of the value template below value_json
build_sensor_config(pack_no, value_template_group, value_template_key) ==
    [entity_type |-> "sensor",
     stat_t |-> pack_no,
     val_tpl |-> <<value_template_group, "normal", value_template_key>>]

\* _build_base_entity under _build_binary_sensor_config
build_binary_sensor_config(pack_no, value_template_group, value_template_key) ==
    [entity_type |-> "binary_sensor",
     stat_t |-> pack_no,
     val_tpl |-> <<value_template_group, "binary", value_template_key>>]

create_similar_sensor_config(num_sensors, pack_no, group, base_value_template_key) ==
    [k \in 1..num_sensors |->
        build_sensor_config(pack_no, group, Key(base_value_template_key, k))]

create_similar_binary_sensor_config(num_sensors, pack_no, group, base_value_template_key) ==
    [k \in 1..num_sensors |->
        build_binary_sensor_config(pack_no, group, Key(base_value_template_key, k))]

\* the configs create_autodiscovery_sensors publishes for a pack, in order
create_autodiscovery_sensors(pack_no) ==
    create_similar_sensor_config(16, pack_no, "telemetry", "voltage_cell")
    \o create_similar_sensor_config(4, pack_no, "telemetry", "cell_temperature")
    \o [k \in 1..Len(TELEMETRY_SENSOR_TEMPLATES) |->
           build_sensor_config(pack_no, "telemetry",
                               Key(TELEMETRY_SENSOR_TEMPLATES[k], 0))]
    \o create_similar_sensor_config(16, pack_no, "telesignalization", "cell_voltage_alarm")
    \o create_similar_sensor_config(4, pack_no, "telesignalization", "cell_temperature_alarm")
    \o create_similar_binary_sensor_config(16, pack_no, "telesignalization", "balancer_cell")
    \o create_similar_binary_sensor_config(16, pack_no, "telesignalization", "disconnection_cell")
    \o [k \in 1..Len(TELESIGNALIZATION_SENSOR_TEMPLATES) |->
           build_sensor_config(pack_no, "telesignalization",
                               Key(TELESIGNALIZATION_SENSOR_TEMPLATES[k], 0))]
    \o [k \in 1..Len(TELESIGNALIZATION_BINARY_SENSOR_TEMPLATES) |->
           build_binary_sensor_config(pack_no, "telesignalization",
                                      Key(TELESIGNALIZATION_BINARY_SENSOR_TEMPLATES[k], 0))]

\* the entries of the decoders' dictionaries that are numbered keys, kept
\* here as one sequence per name
NumberedKeys ==
    {"voltage_cell", "cell_temperature", "voltage_warning_cell",
     "cell_temperature_warning", "equalization_cell", "disconnection_cell"}

\* key in dict, for a dictionary a decoder returned
HasKey(dict, key) ==
    /\ key.name \in DOMAIN dict
    /\ IF key.n = 0 THEN key.name \notin NumberedKeys
       ELSE key.name \in NumberedKeys /\ key.n \in DOMAIN dict[key.name]

\* the main loop's stats for a composite: its two dictionaries and last_update
Stats(data) ==
    [telemetry |-> data.telemetry,
     telesignalization |-> data.telesignalization,
     last_update |-> "now"]

\* Home Assistant's value_json.<path> is defined on the payload stats: every
\* step but the last names a dictionary, the last a key of it; the decoders'
\* dictionaries hold numbers and strings only
Resolves(val_tpl, stats) ==
    /\ Len(val_tpl) = 2
    /\ val_tpl[1] \in {"telemetry", "telesignalization"}
    /\ HasKey(stats[val_tpl[1]], val_tpl[2])

\* the composites of pack 0's polls that read a telemetry response of CellsA
\* or CellsB and a telesignalization response with nothing or a warning
DiscoveryPayloads ==
    {[telemetry |-> decode_telemetry_feedback_frame(
                        Telemetry, TelemetryInfo(16, cells, 0 - 150, 5280)).feedback,
      telesignalization |-> decode_telesignalization_feedback_frame(
                        Telesignalization,
                        TelesignalizationInfo(TelesignalizationBytes(16, 30, b))).feedback] :
        cells \in {CellsA, CellsB}, b \in {0, 1}}

DiscoveryInit ==
    /\ PollerInit
    /\ test \in [op : {"online"},
                 pack_no : {battery_packs[k] : k \in 1..Len(battery_packs)},
                 entity : 1..Len(create_autodiscovery_sensors(0)),
                 battery_pack_data : DiscoveryPayloads]

\* on_ha_online publishes the config of one entity of a pack; the main loop
\* publishes the pack's composite on its sensors topic
PublishConfig ==
    /\ test.op = "online"
    /\ test' = [op |-> "config",
                pack_no |-> test.pack_no,
                entity |-> test.entity,
                config |-> create_autodiscovery_sensors(test.pack_no)[test.entity],
                topic |-> test.pack_no,
                stats |-> Stats(test.battery_pack_data)]
    /\ UNCHANGED pollerVars

DiscoveryNext == PublishConfig

SpecDiscovery == DiscoveryInit /\ [][DiscoveryNext]_vars

\* C30: every discovery entity published for a pack reads the pack's sensors
\* topic and has a value template whose path (group, then key) resolves
\* inside the payload published there.
C30_TemplatesResolve ==
    test.op = "config" =>
        /\ test.config.stat_t = test.topic
        /\ Resolves(test.config.val_tpl, test.stats)

=============================================================================
